---- MODULE Spec2Model ----
(***************************************************************************)
(* Drought-trigger engine of the CKCIAS backend: notification rate         *)
(* limiting and alert dispatch (services/email_service.py, database.py),   *)
(* trigger storage (routes/triggers.py) and trigger evaluation (the        *)
(* services.trigger_engine module, known through the specification and     *)
(* its tests).  Time is counted in whole hours.                            *)
(***************************************************************************)
EXTENDS Integers, Sequences, FiniteSets, TLC

(* ------------------------------ bounds -------------------------------- *)

\* Last hour the clock reaches.
MaxClock == 6
\* Rows the notification log holds at most when rows are written directly.
MaxLog == 2
\* Number of send_drought_alert calls started in one behaviour.
MaxCalls == 2
\* Last hour the clock reaches while send_drought_alert calls interleave.
MaxSendClock == 1

\* Highest id a trigger gets.
MaxTriggerId == 2
\* Largest number of conditions handed to the resolver.
MaxCount == 5

\* Longest conditions_met list handed to the recommendation generator.
MaxRecords == 3

\* Longest boolean vector handed to the resolver.
MaxVector == 4

(* ------------------------- program constants -------------------------- *)

RATE_LIMIT_HOURS == 6

TriggerIds == {1, 2}
UserIds == {1, 2}
\* The (trigger_id, user_id) pairs in use: a pair, the same trigger with
\* another user, and another trigger of the same user.
Pairs == {<<1, 1>>, <<1, 2>>, <<2, 1>>}
\* Concurrent callers of send_drought_alert.
Procs == {1, 2}
\* Offset of the host's local time from UTC, in hours: west of UTC, UTC, and
\* New Zealand daylight time (the "NZDT" the service prints).
TZOffsets == {-5, 0, 13}
\* rate_limit_hours values handed to check_notification_rate_limit.
HourChoices == {0, 1, 6}
\* What send_drought_alert finds of its transport on a call.
Transports == {"ok", "unavailable", "unconfigured"}

VARIABLES
    clock,             \* real time, hours, UTC
    tz,                \* local time = clock + tz
    notification_log,  \* table notification_log, in insertion order
    emails,            \* emails accepted by the transport, in order
    pc,                \* per caller: position inside send_drought_alert
    req,               \* per caller: the (trigger_id, user_id) of its call
    calls,             \* send_drought_alert calls started so far
    faulted,           \* some lookup, dispatch or log write has failed
    last,              \* the operation just performed and what it returned
    triggers,          \* stored triggers, by id, each with its conditions
    next_id,           \* the id the next created trigger gets (AUTOINCREMENT)
    eres,              \* the trigger operation just performed and its answer
    rin,               \* inputs handed to the resolver or to the evaluator
    rout               \* what the resolver, evaluator or batch returned

notifVars == <<clock, tz, notification_log, emails, pc, req, calls, faulted, last>>

engineVars == <<triggers, next_id, eres>>

resolveVars == <<rin, rout>>

NoReq == [trigger_id |-> 0, user_id |-> 0]

\* Shape of `last`; fields an operation does not use keep these values.
NoOp == [op |-> "init", trigger_id |-> 0, user_id |-> 0,
         hours |-> 0, allowed |-> FALSE, failed |-> FALSE, result |-> "none"]

(* ----------------------------- database.py ---------------------------- *)

\* CURRENT_TIMESTAMP of SQLite: the UTC time.
CURRENT_TIMESTAMP == clock

\* datetime.now(): the host's naive local time.
datetime_now == clock + tz

\* INSERT INTO notification_log (...): sent_at takes its column default.
log_notification(log, trigger_id, user_id) ==
    Append(log, [trigger_id |-> trigger_id, user_id |-> user_id,
                 sent_at |-> CURRENT_TIMESTAMP, notification_type |-> "email"])

(* ------------------------- email_service.py --------------------------- *)

\* Mutant of PairRows: the rows of the trigger, of any user.
PairRowsAnyUser(log, trigger_id, user_id) ==
    {i \in 1..Len(log) : log[i].trigger_id = trigger_id}

\* WHERE trigger_id = ? AND user_id = ?
PairRows(log, trigger_id, user_id) ==
    {i \in 1..Len(log) : log[i].trigger_id = trigger_id /\ log[i].user_id = user_id}

\* ... ORDER BY sent_at DESC LIMIT 1 (the row set is not empty).
LastSentAt(log, trigger_id, user_id) ==
    LET rows == PairRows(log, trigger_id, user_id)
        top == CHOOSE i \in rows : \A j \in rows : log[j].sent_at <= log[i].sent_at
    IN log[top].sent_at

\* time_since_last < timedelta(hours=...)
WithinLimit(time_since_last, hours) == time_since_last < hours

\* Mutant of should_send_notification: a failed lookup refuses.
should_send_notification_failclosed(log, trigger_id, user_id, dbFails) ==
    IF dbFails THEN FALSE
    ELSE IF PairRows(log, trigger_id, user_id) = {} THEN TRUE
    ELSE ~WithinLimit(datetime_now - LastSentAt(log, trigger_id, user_id),
                      RATE_LIMIT_HOURS)

\* should_send_notification: dbFails is the lookup raising.
should_send_notification(log, trigger_id, user_id, dbFails) ==
    IF dbFails THEN TRUE
    ELSE IF PairRows(log, trigger_id, user_id) = {} THEN TRUE
    ELSE ~WithinLimit(datetime_now - LastSentAt(log, trigger_id, user_id),
                      RATE_LIMIT_HOURS)

(* ------------- services/trigger_engine.py: the rate limiter ----------- *)

\* Mutant of check_notification_rate_limit: `now` is the host's naive local
\* time, as in should_send_notification.
check_notification_rate_limit_local(log, trigger_id, user_id, hours, dbFails) ==
    IF dbFails THEN <<TRUE, -1>>
    ELSE IF PairRows(log, trigger_id, user_id) = {} THEN <<TRUE, -1>>
    ELSE LET sent == LastSentAt(log, trigger_id, user_id)
         IN <<(datetime_now - sent) >= hours, sent>>

\* check_notification_rate_limit(trigger_id, user_id, rate_limit_hours):
\* <<allowed, last_sent>>; `now` and sent_at are instants on one clock, and a
\* failed lookup fails open.  -1 stands for "no last_sent".
check_notification_rate_limit(log, trigger_id, user_id, hours, dbFails) ==
    IF dbFails THEN <<TRUE, -1>>
    ELSE IF PairRows(log, trigger_id, user_id) = {} THEN <<TRUE, -1>>
    ELSE LET sent == LastSentAt(log, trigger_id, user_id)
         IN <<(clock - sent) >= hours, sent>>


(* ------------------------------ config.py ----------------------------- *)

AVAILABLE_INDICATORS == {"temp", "rainfall", "humidity", "wind_speed"}

COMBINATION_RULES == {"any_1", "any_2", "any_3", "all"}

(* ----------- services/trigger_engine.py: evaluation engine ------------ *)
(* Numbers are in tenths: 275 is 27.5.  A weather snapshot is             *)
(* [num |-> the fields holding a number, nulls |-> the fields holding      *)
(* null]; a field in neither is absent.  An optional value is <<>> or <<v>>.*)

\* Indicator key -> field of the weather snapshot.
INDICATOR_MAP ==
    [temp |-> "temperature", rainfall |-> "rainfall",
     humidity |-> "humidity", wind_speed |-> "wind_speed"]

OPERATORS == {">", "<", ">=", "<=", "=="}

\* The comparison an operator stands for.
Compare(actual, operator, threshold) ==
    CASE operator = ">"  -> actual > threshold
      [] operator = "<"  -> actual < threshold
      [] operator = ">=" -> actual >= threshold
      [] operator = "<=" -> actual <= threshold
      [] operator = "==" -> actual = threshold
      [] OTHER -> FALSE

\* Mutant of evaluate_condition: an operator that is not known is let
\* through and the condition counts as met.
evaluate_condition_lenient(condition, weather_data) ==
    IF ~({"indicator", "operator", "threshold_value"} \subseteq DOMAIN condition)
    THEN [matched |-> FALSE, error |-> "missing required fields"]
    ELSE IF condition.indicator \notin DOMAIN INDICATOR_MAP
    THEN [matched |-> FALSE, error |-> "Invalid indicator"]
    ELSE IF condition.operator \notin OPERATORS
    THEN [matched |-> TRUE, error |-> "Invalid operator"]
    ELSE LET field == INDICATOR_MAP[condition.indicator]
         IN IF field \in weather_data.nulls
            THEN [matched |-> FALSE, error |-> "null value"]
            ELSE IF field \notin DOMAIN weather_data.num
            THEN [matched |-> FALSE, error |-> "missing indicator"]
            ELSE [matched |-> Compare(weather_data.num[field], condition.operator,
                                      condition.threshold_value),
                  error |-> "none"]

\* Mutant of evaluate_condition: a field that is absent or null reads 0.
evaluate_condition_zero(condition, weather_data) ==
    IF ~({"indicator", "operator", "threshold_value"} \subseteq DOMAIN condition)
    THEN [matched |-> FALSE, error |-> "missing required fields"]
    ELSE IF condition.indicator \notin DOMAIN INDICATOR_MAP
    THEN [matched |-> FALSE, error |-> "Invalid indicator"]
    ELSE IF condition.operator \notin OPERATORS
    THEN [matched |-> FALSE, error |-> "Invalid operator"]
    ELSE LET field == INDICATOR_MAP[condition.indicator]
             actual == IF field \in DOMAIN weather_data.num
                       THEN weather_data.num[field] ELSE 0
         IN [matched |-> Compare(actual, condition.operator,
                                 condition.threshold_value),
             error |-> "none"]

\* evaluate_condition(condition, weather_data) -> (matched, error)
evaluate_condition(condition, weather_data) ==
    IF ~({"indicator", "operator", "threshold_value"} \subseteq DOMAIN condition)
    THEN [matched |-> FALSE, error |-> "missing required fields"]
    ELSE IF condition.indicator \notin DOMAIN INDICATOR_MAP
    THEN [matched |-> FALSE, error |-> "Invalid indicator"]
    ELSE IF condition.operator \notin OPERATORS
    THEN [matched |-> FALSE, error |-> "Invalid operator"]
    ELSE LET field == INDICATOR_MAP[condition.indicator]
         IN IF field \in weather_data.nulls
            THEN [matched |-> FALSE, error |-> "null value"]
            ELSE IF field \notin DOMAIN weather_data.num
            THEN [matched |-> FALSE, error |-> "missing indicator"]
            ELSE [matched |-> Compare(weather_data.num[field], condition.operator,
                                      condition.threshold_value),
                  error |-> "none"]

\* apply_combination_rule(rule, conditions_met_count, total_conditions)
apply_combination_rule(rule, conditions_met_count, total_conditions) ==
    CASE rule = "any_1" -> conditions_met_count >= 1
      [] rule = "any_2" -> conditions_met_count >= 2
      [] rule = "any_3" -> conditions_met_count >= 3
      [] rule = "all"   -> conditions_met_count = total_conditions
      [] OTHER -> FALSE

\* The value shown for a condition: the snapshot's number, when it has one.
ActualValue(condition, weather_data) ==
    IF /\ "indicator" \in DOMAIN condition
       /\ condition.indicator \in DOMAIN INDICATOR_MAP
       /\ INDICATOR_MAP[condition.indicator] \in DOMAIN weather_data.num
    THEN <<weather_data.num[INDICATOR_MAP[condition.indicator]]>>
    ELSE <<>>

\* One record of an alert's conditions_met.
ConditionRecord(condition, weather_data) ==
    [condition |-> condition,
     actual_value |-> ActualValue(condition, weather_data),
     met |-> evaluate_condition(condition, weather_data).matched]

IsMet(record) == record.met

\* Order in which the indicator-specific recommendations are given.
IndicatorPriority == <<"temp", "rainfall", "humidity", "wind_speed">>

\* Mutant of get_trigger_recommendations: the met flag is not read, every
\* record's indicator gets its guidance.
get_trigger_recommendations_unfiltered(conditions_met) ==
    LET indicators == {conditions_met[i].condition.indicator :
                          i \in 1..Len(conditions_met)}
        Present(k) == k \in indicators
        order == SelectSeq(IndicatorPriority, Present)
        specific == [n \in 1..Len(order) |->
                        [about |-> order[n], actual_value |-> <<>>]]
        multiple == IF Cardinality(indicators) >= 2
                    THEN << [about |-> "multiple", actual_value |-> <<>>] >>
                    ELSE <<>>
    IN IF Len(conditions_met) = 0 THEN <<>>
       ELSE specific \o multiple
            \o << [about |-> "general", actual_value |-> <<>>],
                  [about |-> "expert", actual_value |-> <<>>] >>

\* Mutant of get_trigger_recommendations: the list the email is built from
\* (email_service.get_recommendations_html), with no warning about multiple
\* indicators.
get_trigger_recommendations_email(conditions_met) ==
    LET met == SelectSeq(conditions_met, IsMet)
        indicators == {met[i].condition.indicator : i \in 1..Len(met)}
        Present(k) == k \in indicators
        order == SelectSeq(IndicatorPriority, Present)
        specific == [n \in 1..Len(order) |->
                        [about |-> order[n], actual_value |-> <<>>]]
    IN IF Len(met) = 0 THEN <<>>
       ELSE specific
            \o << [about |-> "general", actual_value |-> <<>>],
                  [about |-> "expert", actual_value |-> <<>>] >>

\* get_trigger_recommendations(conditions_met): nothing when no condition is
\* met; else one entry per indicator met, in priority order, carrying the
\* value of the first met record of that indicator; then the warning about
\* multiple indicators when two or more indicators are met; then the general
\* guidance and the advice to seek an expert.
get_trigger_recommendations(conditions_met) ==
    LET met == SelectSeq(conditions_met, IsMet)
        indicators == {met[i].condition.indicator : i \in 1..Len(met)}
        Present(k) == k \in indicators
        order == SelectSeq(IndicatorPriority, Present)
        First(k) == CHOOSE i \in 1..Len(met) :
                        /\ met[i].condition.indicator = k
                        /\ \A j \in 1..(i - 1) : met[j].condition.indicator # k
        specific == [n \in 1..Len(order) |->
                        [about |-> order[n],
                         actual_value |-> met[First(order[n])].actual_value]]
        multiple == IF Cardinality(indicators) >= 2
                    THEN << [about |-> "multiple", actual_value |-> <<>>] >>
                    ELSE <<>>
    IN IF Len(met) = 0 THEN <<>>
       ELSE specific \o multiple
            \o << [about |-> "general", actual_value |-> <<>>],
                  [about |-> "expert", actual_value |-> <<>>] >>

\* Mutant of evaluate_trigger: only the conditions that are met are put in
\* conditions_met.
evaluate_trigger_met_only(trigger, conditions, weather_data) ==
    LET records == [i \in 1..Len(conditions) |->
                        ConditionRecord(conditions[i], weather_data)]
        met_count == Cardinality({i \in 1..Len(conditions) : records[i].met})
    IN [fired |-> apply_combination_rule(trigger.combination_rule, met_count,
                                         Len(conditions)),
        trigger_id |-> trigger.id,
        conditions_met |-> SelectSeq(records, IsMet),
        recommendations |-> get_trigger_recommendations(records)]

\* evaluate_trigger(trigger, weather_data): every condition is evaluated,
\* the rule is applied to the number met.
evaluate_trigger(trigger, conditions, weather_data) ==
    LET records == [i \in 1..Len(conditions) |->
                        ConditionRecord(conditions[i], weather_data)]
        met_count == Cardinality({i \in 1..Len(conditions) : records[i].met})
    IN [fired |-> apply_combination_rule(trigger.combination_rule, met_count,
                                         Len(conditions)),
        trigger_id |-> trigger.id,
        conditions_met |-> records,
        recommendations |-> get_trigger_recommendations(records)]

(* ----------------------- database.py: the loaders --------------------- *)

\* Mutant of get_db_connection: the exception is swallowed.
get_db_connection_swallow(failed) ==
    FALSE

\* get_db_connection: whether the with block is left by an exception; a
\* failure inside it is rolled back and raised again.
get_db_connection(failed) ==
    failed

RECURSIVE DescendingIds(_)
\* ORDER BY created_at DESC: the newest row, of the highest id, first.
DescendingIds(ids) ==
    IF ids = {} THEN <<>>
    ELSE LET top == CHOOSE i \in ids : \A j \in ids : j <= i
         IN <<top>> \o DescendingIds(ids \ {top})

\* Mutant of get_user_triggers: the WHERE user_id = ? is lost.
get_user_triggers_all(store, user_id) ==
    LET ids == DescendingIds(DOMAIN store)
    IN [i \in 1..Len(ids) |-> store[ids[i]]]

\* get_user_triggers(user_id): SELECT * FROM triggers WHERE user_id = ?
get_user_triggers(store, user_id) ==
    LET ids == DescendingIds({i \in DOMAIN store : store[i].user_id = user_id})
    IN [i \in 1..Len(ids) |-> store[ids[i]]]

\* get_trigger_conditions(trigger_id)
get_trigger_conditions(store, trigger_id) == store[trigger_id].conditions

(* --------- services/trigger_engine.py: evaluate_all_triggers ---------- *)

IsActive(trigger) == trigger.is_active

Fired(outcome) == outcome.fired

\* Mutant of evaluate_all_triggers: inactive triggers are evaluated too.
evaluate_all_triggers_unfiltered(store, user_id, weather_data) ==
    LET rows == get_user_triggers(store, user_id)
        outcomes == [i \in 1..Len(rows) |->
                        evaluate_trigger(rows[i],
                                         get_trigger_conditions(store, rows[i].id),
                                         weather_data)]
    IN SelectSeq(outcomes, Fired)

\* A condition of the trigger cannot be evaluated on the snapshot.
HasError(conditions, weather_data) ==
    \E i \in 1..Len(conditions) :
        evaluate_condition(conditions[i], weather_data).error # "none"

\* Mutant of evaluate_all_triggers: a condition that cannot be evaluated
\* ends the batch with no alerts.
evaluate_all_triggers_aborting(store, user_id, weather_data) ==
    LET rows == SelectSeq(get_user_triggers(store, user_id), IsActive)
        outcomes == [i \in 1..Len(rows) |->
                        evaluate_trigger(rows[i],
                                         get_trigger_conditions(store, rows[i].id),
                                         weather_data)]
    IN IF \E i \in 1..Len(rows) :
              HasError(get_trigger_conditions(store, rows[i].id), weather_data)
       THEN <<>>
       ELSE SelectSeq(outcomes, Fired)

\* evaluate_all_triggers(user_id, weather_data): the alerts of the user's
\* active triggers that fire, in the order the triggers were loaded.
evaluate_all_triggers(store, user_id, weather_data) ==
    LET rows == SelectSeq(get_user_triggers(store, user_id), IsActive)
        outcomes == [i \in 1..Len(rows) |->
                        evaluate_trigger(rows[i],
                                         get_trigger_conditions(store, rows[i].id),
                                         weather_data)]
    IN SelectSeq(outcomes, Fired)

(* ------------- email_service.py: the comparison of a row -------------- *)

\* Mutant of email_evaluate_condition: == is taken for >=.
email_evaluate_condition_ge(actual_value, operator, threshold) ==
    IF operator = ">" THEN actual_value > threshold
    ELSE IF operator = "<" THEN actual_value < threshold
    ELSE IF operator = ">=" THEN actual_value >= threshold
    ELSE IF operator = "<=" THEN actual_value <= threshold
    ELSE IF operator = "==" THEN actual_value >= threshold
    ELSE FALSE

\* email_service.evaluate_condition(actual_value, operator, threshold)
email_evaluate_condition(actual_value, operator, threshold) ==
    IF operator = ">" THEN actual_value > threshold
    ELSE IF operator = "<" THEN actual_value < threshold
    ELSE IF operator = ">=" THEN actual_value >= threshold
    ELSE IF operator = "<=" THEN actual_value <= threshold
    ELSE IF operator = "==" THEN actual_value = threshold
    ELSE FALSE

(* --------------- example_usage.py: the inline resolver ---------------- *)

\* Mutant of example_should_trigger: any_2 asks for one condition only.
example_should_trigger_loose(rule, met, total) ==
    \/ rule = "any_1" /\ met >= 1
    \/ rule = "any_2" /\ met >= 1
    \/ rule = "any_3" /\ met >= 3
    \/ rule = "all" /\ met = total

\* Mutant of example_should_trigger: all needs at least one condition.
example_should_trigger_nonempty(rule, met, total) ==
    \/ rule = "any_1" /\ met >= 1
    \/ rule = "any_2" /\ met >= 2
    \/ rule = "any_3" /\ met >= 3
    \/ rule = "all" /\ met = total /\ total >= 1

\* Mutant of example_should_trigger: a rule that is not known fires.
example_should_trigger_open(rule, met, total) ==
    \/ rule = "any_1" /\ met >= 1
    \/ rule = "any_2" /\ met >= 2
    \/ rule = "any_3" /\ met >= 3
    \/ rule = "all" /\ met = total
    \/ rule \notin COMBINATION_RULES

\* example_4_drought_monitor_integration: should_trigger from the rule, the
\* number of conditions met and the number of conditions.
example_should_trigger(rule, met, total) ==
    \/ rule = "any_1" /\ met >= 1
    \/ rule = "any_2" /\ met >= 2
    \/ rule = "any_3" /\ met >= 3
    \/ rule = "all" /\ met = total

(* ------------------------------ actions ------------------------------- *)

\* One hour passes, up to the hour `limit`.
Advance(limit) ==
    /\ clock < limit
    /\ clock' = clock + 1
    /\ last' = [NoOp EXCEPT !.op = "tick"]
    /\ UNCHANGED <<tz, notification_log, emails, pc, req, calls, faulted>>
    /\ UNCHANGED <<engineVars, resolveVars>>

Tick == Advance(MaxClock)

TickSend == Advance(MaxSendClock)

\* database.log_notification called directly, as the rate-limit test does.
LogNotification(trigger_id, user_id) ==
    /\ Len(notification_log) < MaxLog
    /\ notification_log' = log_notification(notification_log, trigger_id, user_id)
    /\ last' = [NoOp EXCEPT !.op = "log_notification"]
    /\ UNCHANGED <<clock, tz, emails, pc, req, calls, faulted>>
    /\ UNCHANGED <<engineVars, resolveVars>>

\* Mutant of ShouldSend: a check that allows writes the log row itself.
ShouldSendLogging(trigger_id, user_id) ==
    \E dbFails \in BOOLEAN :
        LET allowed == should_send_notification(notification_log, trigger_id,
                                                user_id, dbFails)
        IN /\ last' = [NoOp EXCEPT !.op = "should_send",
                          !.trigger_id = trigger_id, !.user_id = user_id,
                          !.hours = RATE_LIMIT_HOURS, !.failed = dbFails,
                          !.allowed = allowed]
           /\ notification_log' =
                 IF allowed /\ Len(notification_log) < MaxLog
                 THEN log_notification(notification_log, trigger_id, user_id)
                 ELSE notification_log
           /\ UNCHANGED <<clock, tz, emails, pc, req, calls, faulted>>
           /\ UNCHANGED <<engineVars, resolveVars>>

\* should_send_notification called on its own (example_usage.py).
ShouldSend(trigger_id, user_id) ==
    \E dbFails \in BOOLEAN :
        /\ last' = [NoOp EXCEPT !.op = "should_send",
                       !.trigger_id = trigger_id, !.user_id = user_id,
                       !.hours = RATE_LIMIT_HOURS, !.failed = dbFails,
                       !.allowed = should_send_notification(
                                       notification_log, trigger_id, user_id, dbFails)]
        /\ UNCHANGED <<clock, tz, notification_log, emails, pc, req, calls, faulted>>
        /\ UNCHANGED <<engineVars, resolveVars>>

\* check_notification_rate_limit called by a host.
CheckRateLimit(trigger_id, user_id, hours) ==
    \E dbFails \in BOOLEAN :
        /\ last' = [NoOp EXCEPT !.op = "check_rate_limit",
                       !.trigger_id = trigger_id, !.user_id = user_id,
                       !.hours = hours, !.failed = dbFails,
                       !.allowed = check_notification_rate_limit(
                                       notification_log, trigger_id, user_id,
                                       hours, dbFails)[1]]
        /\ UNCHANGED <<clock, tz, notification_log, emails, pc, req, calls, faulted>>
        /\ UNCHANGED <<engineVars, resolveVars>>

\* What send_drought_alert returns before it reaches the transport, or
\* "go" when it goes on to dispatch.
SendGate(allowed, transport) ==
    IF ~allowed THEN "rate_limited"
    ELSE IF transport = "unavailable" THEN "unavailable"
    ELSE IF transport = "unconfigured" THEN "unconfigured"
    ELSE "go"

\* send_drought_alert, first part: the rate-limit check and the checks of
\* the transport; the email is then built without touching shared state.
SendStart(p, trigger_id, user_id) ==
    /\ pc[p] = "idle"
    /\ calls < MaxCalls
    /\ \E dbFails \in BOOLEAN, transport \in Transports :
        LET allowed == should_send_notification(
                           notification_log, trigger_id, user_id, dbFails)
            gate == SendGate(allowed, transport)
        IN /\ pc' = [pc EXCEPT ![p] = IF gate = "go" THEN "dispatch" ELSE "idle"]
           /\ req' = [req EXCEPT ![p] = IF gate = "go"
                                         THEN [trigger_id |-> trigger_id,
                                               user_id |-> user_id]
                                         ELSE NoReq]
           /\ last' = [NoOp EXCEPT !.op = "send_start",
                          !.trigger_id = trigger_id, !.user_id = user_id,
                          !.hours = RATE_LIMIT_HOURS,
                          !.failed = dbFails, !.allowed = allowed,
                          !.result = gate]
           /\ faulted' = (faulted \/ dbFails)
    /\ calls' = calls + 1
    /\ UNCHANGED <<clock, tz, notification_log, emails>>
    /\ UNCHANGED <<engineVars, resolveVars>>

\* Mutant of Dispatch: the row is written before the transport answers.
DispatchLogsFirst(p) ==
    /\ pc[p] = "dispatch"
    /\ notification_log' = log_notification(notification_log, req[p].trigger_id,
                                            req[p].user_id)
    /\ \E ok \in BOOLEAN :
        /\ emails' = IF ok THEN Append(emails, [trigger_id |-> req[p].trigger_id,
                                                user_id |-> req[p].user_id,
                                                at |-> clock])
                     ELSE emails
        /\ last' = [NoOp EXCEPT !.op = "dispatch",
                       !.trigger_id = req[p].trigger_id,
                       !.user_id = req[p].user_id, !.failed = ~ok,
                       !.result = IF ok THEN "success" ELSE "error"]
        /\ faulted' = (faulted \/ ~ok)
    /\ pc' = [pc EXCEPT ![p] = "idle"]
    /\ req' = [req EXCEPT ![p] = NoReq]
    /\ UNCHANGED <<clock, tz, calls>>
    /\ UNCHANGED <<engineVars, resolveVars>>

\* send_drought_alert, sg.send(message): accepted, or it raises and the
\* handler returns success = False.
Dispatch(p) ==
    /\ pc[p] = "dispatch"
    /\ \E ok \in BOOLEAN :
        /\ emails' = IF ok THEN Append(emails, [trigger_id |-> req[p].trigger_id,
                                                user_id |-> req[p].user_id,
                                                at |-> clock])
                     ELSE emails
        /\ pc' = [pc EXCEPT ![p] = IF ok THEN "log" ELSE "idle"]
        /\ req' = [req EXCEPT ![p] = IF ok THEN req[p] ELSE NoReq]
        /\ last' = [NoOp EXCEPT !.op = "dispatch",
                       !.trigger_id = req[p].trigger_id,
                       !.user_id = req[p].user_id, !.failed = ~ok,
                       !.result = IF ok THEN "dispatched" ELSE "error"]
        /\ faulted' = (faulted \/ ~ok)
    /\ UNCHANGED <<clock, tz, notification_log, calls>>
    /\ UNCHANGED <<engineVars, resolveVars>>

\* The log after send_drought_alert's log_notification call.
LogWrite(log, trigger_id, user_id, ok) ==
    IF ok THEN log_notification(log, trigger_id, user_id) ELSE log

\* send_drought_alert, log_notification(...) and the return: the insert
\* commits, or it raises and the handler returns success = False.
LogStep(p) ==
    /\ pc[p] = "log"
    /\ \E ok \in BOOLEAN :
        /\ notification_log' = LogWrite(notification_log, req[p].trigger_id,
                                        req[p].user_id, ok)
        /\ last' = [NoOp EXCEPT !.op = "log",
                       !.trigger_id = req[p].trigger_id,
                       !.user_id = req[p].user_id, !.failed = ~ok,
                       !.result = IF ok THEN "success" ELSE "error"]
        /\ faulted' = (faulted \/ ~ok)
    /\ pc' = [pc EXCEPT ![p] = "idle"]
    /\ req' = [req EXCEPT ![p] = NoReq]
    /\ UNCHANGED <<clock, tz, emails, calls>>
    /\ UNCHANGED <<engineVars, resolveVars>>

(* --------------------- the trigger store and its API ------------------- *)
(* A trigger is held with its conditions: routes/triggers.py keeps them in *)
(* the trigger's row, database.py in the rows of trigger_conditions.       *)

\* seed_default_triggers: the conditions of "Taranaki Drought Alert".
SeedConditions ==
    << [indicator |-> "temp", operator |-> ">", threshold_value |-> 250],
       [indicator |-> "rainfall", operator |-> "<", threshold_value |-> 20],
       [indicator |-> "humidity", operator |-> "<", threshold_value |-> 600] >>

\* seed_default_triggers: Tim House's trigger, any_2, active.
SeedTrigger ==
    [id |-> 1, user_id |-> 2, name |-> "Taranaki Drought Alert",
     region |-> "Taranaki", conditions |-> SeedConditions,
     combination_rule |-> "any_2", is_active |-> TRUE]

\* The store after init_database, seed_users and seed_default_triggers.
SeedStore == [i \in {1} |-> SeedTrigger]

\* Another condition list, with the operators >= and ==.
WindConditions ==
    << [indicator |-> "wind_speed", operator |-> ">=", threshold_value |-> 150],
       [indicator |-> "humidity", operator |-> "==", threshold_value |-> 650] >>

ConditionLists == {SeedConditions, WindConditions}

\* Weather snapshots: 2 of the seed's 3 conditions met; none met; all three
\* met; temperature absent and humidity null.
Weathers ==
    { [num |-> [temperature |-> 275, rainfall |-> 12, humidity |-> 650,
                wind_speed |-> 150], nulls |-> {}],
      [num |-> [temperature |-> 220, rainfall |-> 35, humidity |-> 650,
                wind_speed |-> 100], nulls |-> {}],
      [num |-> [temperature |-> 285, rainfall |-> 8, humidity |-> 450,
                wind_speed |-> 150], nulls |-> {}],
      [num |-> [rainfall |-> 12, wind_speed |-> 100], nulls |-> {"humidity"}] }

NoWeather == [num |-> <<>>, nulls |-> {}]

\* Shape of `eres`; fields an operation does not use keep these values.
NoERes == [op |-> "init", status |-> 0, trigger_id |-> 0, user_id |-> 0,
           weather |-> NoWeather, alerts |-> <<>>, load_failure |-> "none",
           body |-> <<>>]

\* TriggerCondition: the validators of indicator and operator.
ValidCondition(c) ==
    /\ c.indicator \in AVAILABLE_INDICATORS
    /\ c.operator \in {">", "<", ">=", "<=", "=="}

\* TriggerCreate: conditions has min_items=1, every condition is valid and
\* combination_rule is one of COMBINATION_RULES.
ValidCreate(r) ==
    /\ r.name # "" /\ r.region # ""
    /\ Len(r.conditions) >= 1
    /\ \A i \in 1..Len(r.conditions) : ValidCondition(r.conditions[i])
    /\ r.combination_rule \in COMBINATION_RULES

\* Mutant of ValidUpdate: the conditions of an update are not validated.
ValidUpdateUnchecked(u) ==
    /\ "name" \in DOMAIN u => u.name # ""
    /\ "region" \in DOMAIN u => u.region # ""
    /\ "combination_rule" \in DOMAIN u => u.combination_rule \in COMBINATION_RULES

\* TriggerUpdate: the same constraints on the fields that are supplied.
ValidUpdate(u) ==
    /\ "name" \in DOMAIN u => u.name # ""
    /\ "region" \in DOMAIN u => u.region # ""
    /\ "conditions" \in DOMAIN u =>
          /\ Len(u.conditions) >= 1
          /\ \A i \in 1..Len(u.conditions) : ValidCondition(u.conditions[i])
    /\ "combination_rule" \in DOMAIN u => u.combination_rule \in COMBINATION_RULES

\* Bodies POSTed to /triggers: every valid combination, then one body for
\* each way validation fails.
CreateRequests ==
    [user_id : UserIds, name : {"Alert"}, region : {"Taranaki"},
     conditions : ConditionLists, combination_rule : COMBINATION_RULES,
     is_active : BOOLEAN]
    \cup
    { [user_id |-> 1, name |-> "Alert", region |-> "Taranaki",
       conditions |-> SeedConditions, combination_rule |-> "any_4",
       is_active |-> TRUE],
      [user_id |-> 1, name |-> "Alert", region |-> "Taranaki",
       conditions |-> <<>>, combination_rule |-> "all", is_active |-> TRUE],
      [user_id |-> 1, name |-> "Alert", region |-> "Taranaki",
       conditions |-> << [indicator |-> "pressure", operator |-> ">",
                          threshold_value |-> 250] >>,
       combination_rule |-> "any_1", is_active |-> TRUE],
      [user_id |-> 1, name |-> "Alert", region |-> "Taranaki",
       conditions |-> << [indicator |-> "temp", operator |-> "!=",
                          threshold_value |-> 250] >>,
       combination_rule |-> "any_1", is_active |-> TRUE] }

\* Bodies PUT to /triggers/{id}; a field left out is None.  The empty body,
\* single fields, two fields at once, and bodies that fail validation.
UpdateRequests ==
    {[combination_rule |-> r] : r \in COMBINATION_RULES}
    \cup {[is_active |-> b] : b \in BOOLEAN}
    \cup { <<>>,
           [combination_rule |-> "all", is_active |-> FALSE],
           [combination_rule |-> "any_4"],
           [conditions |-> <<>>] }

\* Ids named in the path of a request.
TargetIds == 1..MaxTriggerId

\* create_trigger: the row INSERTed.
create_trigger(store, id, r) ==
    [i \in DOMAIN store \cup {id} |->
        IF i = id
        THEN [id |-> id, user_id |-> r.user_id, name |-> r.name,
              region |-> r.region, conditions |-> r.conditions,
              combination_rule |-> r.combination_rule,
              is_active |-> r.is_active]
        ELSE store[i]]

\* The column a PUT writes: the supplied value, or the stored one.
Supplied(u, row, field) == IF field \in DOMAIN u THEN u[field] ELSE row[field]

\* Mutant of update_trigger: supplied conditions are added to the stored
\* ones.
update_trigger_merge(store, id, u) ==
    [store EXCEPT ![id] =
        [id |-> @.id, user_id |-> @.user_id,
         name |-> Supplied(u, @, "name"),
         region |-> Supplied(u, @, "region"),
         conditions |-> IF "conditions" \in DOMAIN u
                        THEN @.conditions \o u.conditions
                        ELSE @.conditions,
         combination_rule |-> Supplied(u, @, "combination_rule"),
         is_active |-> Supplied(u, @, "is_active")]]

\* update_trigger: UPDATE triggers SET <the supplied fields> WHERE id = ?
update_trigger(store, id, u) ==
    [store EXCEPT ![id] =
        [id |-> @.id, user_id |-> @.user_id,
         name |-> Supplied(u, @, "name"),
         region |-> Supplied(u, @, "region"),
         conditions |-> Supplied(u, @, "conditions"),
         combination_rule |-> Supplied(u, @, "combination_rule"),
         is_active |-> Supplied(u, @, "is_active")]]

\* Mutant of toggle_trigger: the flag is switched off, whatever it was.
toggle_trigger_off(store, id) ==
    [store EXCEPT ![id].is_active = FALSE]

\* toggle_trigger: new_status = not current_status
toggle_trigger(store, id) ==
    [store EXCEPT ![id].is_active = ~store[id].is_active]

\* delete_trigger: DELETE FROM triggers WHERE id = ?
delete_trigger(store, id) == [i \in DOMAIN store \ {id} |-> store[i]]

\* Mutant of UpdateTriggerCall: the row is looked up before the body is
\* validated.
UpdateTriggerLookupFirst(id, u) ==
    /\ IF id \notin DOMAIN triggers
       THEN /\ eres' = [NoERes EXCEPT !.op = "update", !.status = 404,
                                      !.trigger_id = id]
            /\ UNCHANGED triggers
       ELSE IF ~ValidUpdate(u)
       THEN /\ eres' = [NoERes EXCEPT !.op = "update", !.status = 422,
                                      !.trigger_id = id]
            /\ UNCHANGED triggers
       ELSE IF DOMAIN u = {}
       THEN /\ eres' = [NoERes EXCEPT !.op = "update", !.status = 400,
                                      !.trigger_id = id]
            /\ UNCHANGED triggers
       ELSE /\ triggers' = update_trigger(triggers, id, u)
            /\ eres' = [NoERes EXCEPT !.op = "update", !.status = 200,
                                      !.trigger_id = id,
                                      !.body = <<triggers'[id]>>]
    /\ UNCHANGED <<next_id, notifVars>>

\* POST /triggers: the validated body is INSERTed and the new row returned.
CreateTriggerCall(r) ==
    /\ next_id <= MaxTriggerId
    /\ IF ValidCreate(r)
       THEN /\ triggers' = create_trigger(triggers, next_id, r)
            /\ next_id' = next_id + 1
            /\ eres' = [NoERes EXCEPT !.op = "create", !.status = 201,
                                      !.trigger_id = next_id,
                                      !.body = <<triggers'[next_id]>>]
       ELSE /\ eres' = [NoERes EXCEPT !.op = "create", !.status = 422]
            /\ UNCHANGED <<triggers, next_id>>
    /\ UNCHANGED notifVars

CreateTrigger(r) ==
    CreateTriggerCall(r) /\ UNCHANGED resolveVars

\* GET /triggers/{trigger_id}
GetTriggerCall(id) ==
    /\ IF id \notin DOMAIN triggers
       THEN eres' = [NoERes EXCEPT !.op = "get", !.status = 404,
                                   !.trigger_id = id]
       ELSE eres' = [NoERes EXCEPT !.op = "get", !.status = 200,
                                   !.trigger_id = id,
                                   !.body = <<triggers[id]>>]
    /\ UNCHANGED <<triggers, next_id, notifVars>>

\* PUT /triggers/{trigger_id}: the body is validated before the handler
\* runs; the handler looks the row up, then refuses a body with no field.
UpdateTriggerCall(id, u) ==
    /\ IF ~ValidUpdate(u)
       THEN /\ eres' = [NoERes EXCEPT !.op = "update", !.status = 422,
                                      !.trigger_id = id]
            /\ UNCHANGED triggers
       ELSE IF id \notin DOMAIN triggers
       THEN /\ eres' = [NoERes EXCEPT !.op = "update", !.status = 404,
                                      !.trigger_id = id]
            /\ UNCHANGED triggers
       ELSE IF DOMAIN u = {}
       THEN /\ eres' = [NoERes EXCEPT !.op = "update", !.status = 400,
                                      !.trigger_id = id]
            /\ UNCHANGED triggers
       ELSE /\ triggers' = update_trigger(triggers, id, u)
            /\ eres' = [NoERes EXCEPT !.op = "update", !.status = 200,
                                      !.trigger_id = id,
                                      !.body = <<triggers'[id]>>]
    /\ UNCHANGED <<next_id, notifVars>>

UpdateTrigger(id, u) ==
    UpdateTriggerCall(id, u) /\ UNCHANGED resolveVars

\* POST /triggers/{trigger_id}/toggle
ToggleTriggerCall(id) ==
    /\ IF id \notin DOMAIN triggers
       THEN /\ eres' = [NoERes EXCEPT !.op = "toggle", !.status = 404,
                                      !.trigger_id = id]
            /\ UNCHANGED triggers
       ELSE /\ triggers' = toggle_trigger(triggers, id)
            /\ eres' = [NoERes EXCEPT !.op = "toggle", !.status = 200,
                                      !.trigger_id = id,
                                      !.body = <<triggers'[id]>>]
    /\ UNCHANGED <<next_id, notifVars>>

ToggleTrigger(id) ==
    ToggleTriggerCall(id) /\ UNCHANGED resolveVars

\* DELETE /triggers/{trigger_id}: the row of the trigger and nothing else;
\* no connection sets PRAGMA foreign_keys, so nothing cascades.
DeleteTriggerCall(id) ==
    /\ IF id \notin DOMAIN triggers
       THEN /\ eres' = [NoERes EXCEPT !.op = "delete", !.status = 404,
                                      !.trigger_id = id]
            /\ UNCHANGED triggers
       ELSE /\ triggers' = delete_trigger(triggers, id)
            /\ eres' = [NoERes EXCEPT !.op = "delete", !.status = 200,
                                      !.trigger_id = id]
    /\ UNCHANGED <<next_id, notifVars>>

DeleteTrigger(id) ==
    DeleteTriggerCall(id) /\ UNCHANGED resolveVars

\* Bodies POSTed to /triggers by the API tests: a valid one, and one for each
\* way validation fails.
ApiCreateRequests ==
    { [user_id |-> 1, name |-> "Alert", region |-> "Taranaki",
       conditions |-> SeedConditions, combination_rule |-> "any_1",
       is_active |-> TRUE] }
    \cup {r \in CreateRequests : ~ValidCreate(r)}

\* Bodies PUT to /triggers/{id} by the API tests: the conditions alone, the
\* name alone, both (test_update_trigger), the rule with the flag, the empty
\* body, and bodies that fail validation.
ApiUpdateRequests ==
    { [conditions |-> WindConditions],
      [name |-> "Updated Drought Alert"],
      [name |-> "Updated Drought Alert", conditions |-> WindConditions],
      [combination_rule |-> "all", is_active |-> FALSE],
      <<>>,
      [combination_rule |-> "any_4"],
      [conditions |-> <<>>],
      [conditions |-> << [indicator |-> "pressure", operator |-> ">",
                          threshold_value |-> 250] >>] }

\* Shape of `rin` for an API request: the operation, the id of the path and
\* the body.
NoApiReq == [op |-> "init", id |-> 0, body |-> <<>>]

\* The API requests as a client sends them; `rin` keeps the request.
ApiCreate(r) ==
    /\ CreateTriggerCall(r)
    /\ rin' = [NoApiReq EXCEPT !.op = "create", !.body = r]
    /\ UNCHANGED rout

ApiGet(id) ==
    /\ GetTriggerCall(id)
    /\ rin' = [NoApiReq EXCEPT !.op = "get", !.id = id]
    /\ UNCHANGED rout

ApiUpdate(id, u) ==
    /\ UpdateTriggerCall(id, u)
    /\ rin' = [NoApiReq EXCEPT !.op = "update", !.id = id, !.body = u]
    /\ UNCHANGED rout

ApiToggle(id) ==
    /\ ToggleTriggerCall(id)
    /\ rin' = [NoApiReq EXCEPT !.op = "toggle", !.id = id]
    /\ UNCHANGED rout

ApiDelete(id) ==
    /\ DeleteTriggerCall(id)
    /\ rin' = [NoApiReq EXCEPT !.op = "delete", !.id = id]
    /\ UNCHANGED rout

\* Where the persistence read of an evaluation fails: nowhere, on the load
\* of the user's triggers, or on the load of a trigger's conditions.
LoadFailures == {"none", "triggers", "conditions"}

\* evaluate_all_triggers(user_id, weather_data): reads the store, writes
\* nothing.  A failed load leaves by the exception get_db_connection raises
\* again; conditions are loaded only when the user has an active trigger.
EvaluateAll(user_id, weather_data, failure) ==
    /\ failure = "conditions" =>
          \E id \in DOMAIN triggers :
              triggers[id].user_id = user_id /\ triggers[id].is_active
    /\ IF failure # "none" /\ get_db_connection(TRUE)
       THEN eres' = [NoERes EXCEPT !.op = "evaluate_raised",
                                   !.user_id = user_id,
                                   !.load_failure = failure]
       ELSE eres' = [NoERes EXCEPT
                        !.op = "evaluate", !.user_id = user_id,
                        !.weather = weather_data,
                        !.load_failure = failure,
                        !.alerts = IF failure = "none"
                                   THEN evaluate_all_triggers(triggers, user_id,
                                                              weather_data)
                                   ELSE <<>>]
    /\ UNCHANGED <<triggers, next_id, notifVars, resolveVars>>

\* Mutant of EvaluateAgain: the engine remembers the alerts it returned and
\* leaves them out the second time.
EvaluateAgainOnce(user_id, weather_data) ==
    /\ eres.op \in {"evaluate", "evaluate_again"}
    /\ eres.load_failure = "none"
    /\ eres.user_id = user_id
    /\ eres.weather = weather_data
    /\ LET alerts == evaluate_all_triggers(triggers, user_id, weather_data)
           Fresh(a) == \A i \in 1..Len(eres.alerts) : eres.alerts[i] # a
       IN eres' = [NoERes EXCEPT
                       !.op = "evaluate_again", !.user_id = user_id,
                       !.weather = weather_data,
                       !.alerts = SelectSeq(alerts, Fresh)]
    /\ UNCHANGED <<triggers, next_id, notifVars, resolveVars>>

\* evaluate_all_triggers called again for the user and snapshot of the
\* evaluation just made, nothing written to the store in between.
EvaluateAgain(user_id, weather_data) ==
    /\ eres.op \in {"evaluate", "evaluate_again"}
    /\ eres.load_failure = "none"
    /\ eres.user_id = user_id
    /\ eres.weather = weather_data
    /\ eres' = [NoERes EXCEPT
                    !.op = "evaluate_again", !.user_id = user_id,
                    !.weather = weather_data,
                    !.alerts = evaluate_all_triggers(triggers, user_id,
                                                     weather_data)]
    /\ UNCHANGED <<triggers, next_id, notifVars, resolveVars>>

(* ------------------------ the resolver on its own --------------------- *)

\* Rule names handed to the resolver: the four rules and names that are not
\* rules.
ResolverRules == COMBINATION_RULES \cup {"some_invalid_rule", "any_4", "ALL", ""}

\* (rule, matched_count, total_count) with 0 <= matched_count <= total_count.
ResolverInputs ==
    {r \in [rule : ResolverRules, matched : 0..MaxCount, total : 0..MaxCount] :
        r.matched <= r.total}

NoRIn == [rule |-> "", matched |-> 0, total |-> 0]

\* Shape of `rout`; fields an operation does not use keep these values.
NoROut == [op |-> "init", fired |-> FALSE, raised |-> FALSE,
           weather |-> NoWeather, alerts |-> <<>>]

\* A user's triggers when the newer one, id 2, carries the rule under test:
\* the seeded trigger and a second trigger with the same conditions.
BatchStore(rule) ==
    [i \in {1, 2} |->
        IF i = 1 THEN SeedTrigger
        ELSE [SeedTrigger EXCEPT !.id = 2, !.name = "Alert",
                                 !.combination_rule = rule]]

\* apply_combination_rule(rule, matched_count, total_count); no branch raises.
ApplyCombinationRule ==
    /\ rout' = [NoROut EXCEPT
                    !.op = "apply_combination_rule",
                    !.fired = apply_combination_rule(rin.rule, rin.matched,
                                                     rin.total)]
    /\ UNCHANGED <<rin, notifVars, engineVars>>

\* The rule check of example_4_drought_monitor_integration; no branch raises.
ExampleShouldTrigger ==
    /\ rout' = [NoROut EXCEPT
                    !.op = "example_should_trigger",
                    !.fired = example_should_trigger(rin.rule, rin.matched,
                                                     rin.total)]
    /\ UNCHANGED <<rin, notifVars, engineVars>>

\* evaluate_all_triggers over BatchStore(rule), for the seeded user.
EvaluateBatch(weather_data) ==
    /\ rout' = [NoROut EXCEPT
                    !.op = "evaluate_batch",
                    !.weather = weather_data,
                    !.alerts = evaluate_all_triggers(BatchStore(rin.rule),
                                                     SeedTrigger.user_id,
                                                     weather_data)]
    /\ UNCHANGED <<rin, notifVars, engineVars>>

(* ----------------------- the evaluator on its own --------------------- *)

\* Thresholds of the conditions handed to the evaluator, in tenths.
Thresholds == {0, 200, 275, 300}

\* Well-formed conditions.
ValidConditions ==
    [indicator : AVAILABLE_INDICATORS, operator : OPERATORS,
     threshold_value : Thresholds]

\* Conditions with a field missing, an unknown indicator, an unknown
\* operator, or several of these.
MalformedConditions ==
    { [operator |-> ">", threshold_value |-> 250],
      [indicator |-> "temp", threshold_value |-> 250],
      [indicator |-> "temp", operator |-> ">"],
      [indicator |-> "pressure", operator |-> "!="],
      <<>>,
      [indicator |-> "pressure", operator |-> ">", threshold_value |-> 250],
      [indicator |-> "temp", operator |-> "!=", threshold_value |-> 250],
      [indicator |-> "pressure", operator |-> "!=", threshold_value |-> 250] }

\* Snapshots handed to the evaluator: those of Weathers, the empty one, one
\* with temperature null, one below zero, one with a field nobody reads.
EvalWeathers ==
    Weathers \cup
    { NoWeather,
      [num |-> [rainfall |-> 12, humidity |-> 550], nulls |-> {"temperature"}],
      [num |-> [temperature |-> -50, rainfall |-> 0, humidity |-> 1000,
                wind_speed |-> 0], nulls |-> {}],
      [num |-> [temperature |-> 275, pressure |-> 10132], nulls |-> {}] }

EvaluatorInputs ==
    [condition : ValidConditions \cup MalformedConditions, weather : EvalWeathers]

\* Shape of `rout` for the evaluator.
NoEOut == [op |-> "init", matched |-> FALSE, error |-> "none", raised |-> FALSE]

\* evaluate_condition(condition, weather_data); every path returns a pair.
EvaluateCondition ==
    /\ LET r == evaluate_condition(rin.condition, rin.weather)
       IN rout' = [NoEOut EXCEPT !.op = "evaluate_condition",
                                 !.matched = r.matched, !.error = r.error]
    /\ UNCHANGED <<rin, notifVars, engineVars>>

\* email_service.evaluate_condition on the number the snapshot holds for the
\* condition's indicator.
EmailEvaluateCondition ==
    /\ {"indicator", "operator", "threshold_value"} \subseteq DOMAIN rin.condition
    /\ rin.condition.indicator \in DOMAIN INDICATOR_MAP
    /\ INDICATOR_MAP[rin.condition.indicator] \in DOMAIN rin.weather.num
    /\ rout' = [NoEOut EXCEPT
                    !.op = "email_evaluate_condition",
                    !.matched = email_evaluate_condition(
                        rin.weather.num[INDICATOR_MAP[rin.condition.indicator]],
                        rin.condition.operator,
                        rin.condition.threshold_value)]
    /\ UNCHANGED <<rin, notifVars, engineVars>>

(* ------------- email_service.py: the table of the report ------------- *)

\* dict.get(key, default)
DictGet(d, key, default) == IF key \in DOMAIN d THEN d[key] ELSE default

\* A conditions_met record as the engine hands it over: one dict with the
\* keys indicator, operator, threshold_value, actual_value, met; an
\* actual_value of <<>> is None.
FlatRecord(record) ==
    [indicator |-> record.condition.indicator,
     operator |-> record.condition.operator,
     threshold_value |-> record.condition.threshold_value,
     actual_value |-> record.actual_value,
     met |-> record.met]

\* The row of format_conditions_table for one record: threshold is read
\* under the key "threshold" with default 0 and actual_value with default 0;
\* is_met is evaluate_condition(actual_value, operator, threshold).  An
\* actual_value of None raises in an ordering comparison and is unequal to
\* every number.
TableRow(condition) ==
    LET operator == DictGet(condition, "operator", "")
        threshold == DictGet(condition, "threshold", 0)
        actual_value == DictGet(condition, "actual_value", <<0>>)
    IN IF actual_value = <<>>
       THEN [raised |-> operator \in {">", "<", ">=", "<="}, is_met |-> FALSE]
       ELSE [raised |-> FALSE,
             is_met |-> email_evaluate_condition(actual_value[1], operator,
                                                 threshold)]

\* format_conditions_table(conditions_met): the status shown in each row, or
\* the exception that leaves the function.
format_conditions_table(conditions_met) ==
    [raised |-> \E i \in 1..Len(conditions_met) : TableRow(conditions_met[i]).raised,
     is_met |-> [i \in 1..Len(conditions_met) |-> TableRow(conditions_met[i]).is_met]]

\* Condition lists and snapshots the report is built for: those of the
\* stored triggers, and every single well-formed condition.
ReportInputs ==
    [conditions : ConditionLists, weather : Weathers]
    \cup [conditions : {<<c>> : c \in ValidConditions}, weather : EvalWeathers]

\* Shape of `rout` for the report.
NoTableOut == [op |-> "init", records |-> <<>>, raised |-> FALSE, is_met |-> <<>>]

\* format_conditions_table on the conditions_met of the engine for the
\* conditions and the snapshot.
FormatConditionsTable ==
    /\ LET records == [i \in 1..Len(rin.conditions) |->
                          FlatRecord(ConditionRecord(rin.conditions[i],
                                                     rin.weather))]
           table == format_conditions_table(records)
       IN rout' = [NoTableOut EXCEPT
                       !.op = "format_conditions_table",
                       !.records = records,
                       !.raised = table.raised,
                       !.is_met = table.is_met]
    /\ UNCHANGED <<rin, notifVars, engineVars>>

(* ------------------ the resolver on a boolean vector ------------------ *)

RECURSIVE SeqsUpTo(_, _)
\* The sequences over S of length at most n.
SeqsUpTo(S, n) ==
    IF n = 0 THEN {<<>>}
    ELSE LET shorter == SeqsUpTo(S, n - 1)
         IN shorter \cup {Append(q, x) : q \in shorter, x \in S}

RECURSIVE CountTrue(_)
\* count(true) of a boolean vector, entry by entry.
CountTrue(conditions) ==
    IF conditions = <<>> THEN 0
    ELSE (IF Head(conditions) THEN 1 ELSE 0) + CountTrue(Tail(conditions))

\* Mutant of apply_combination_rule_vector: the entries that are false are
\* not counted in the total.
apply_combination_rule_met_only(rule, conditions) ==
    apply_combination_rule(rule, CountTrue(conditions), CountTrue(conditions))

\* apply_combination_rule(rule, conditions) with the full boolean vector:
\* matched_count = count(true), total_count = len(vector).
apply_combination_rule_vector(rule, conditions) ==
    apply_combination_rule(rule, CountTrue(conditions), Len(conditions))

\* The outcomes of a trigger's conditions, one boolean each.
Vectors == SeqsUpTo(BOOLEAN, MaxVector)

VectorInputs == [rule : ResolverRules, conditions : Vectors]

\* Shape of `rout` for the resolver on a vector.
NoVOut == [op |-> "init", fired |-> FALSE]

\* apply_combination_rule(rule, [True, False, ...]).
ApplyToVector ==
    /\ rout' = [NoVOut EXCEPT
                    !.op = "vector",
                    !.fired = apply_combination_rule_vector(rin.rule,
                                                            rin.conditions)]
    /\ UNCHANGED <<rin, notifVars, engineVars>>

\* apply_combination_rule(rule, conditions_met_count, total_conditions) by a
\* caller that counted the entries itself.
ApplyToCounts ==
    /\ LET met == {i \in 1..Len(rin.conditions) : rin.conditions[i]}
       IN rout' = [NoVOut EXCEPT
                       !.op = "counts",
                       !.fired = apply_combination_rule(
                                     rin.rule, Cardinality(met),
                                     Len(rin.conditions))]
    /\ UNCHANGED <<rin, notifVars, engineVars>>

\* The rule check of example_4_drought_monitor_integration on the list of
\* the conditions it found met.
ExampleOnVector ==
    /\ LET IsTrue(b) == b
           conditions_met == SelectSeq(rin.conditions, IsTrue)
       IN rout' = [NoVOut EXCEPT
                       !.op = "example",
                       !.fired = example_should_trigger(
                                     rin.rule, Len(conditions_met),
                                     Len(rin.conditions))]
    /\ UNCHANGED <<rin, notifVars, engineVars>>

(* ---------------- the recommendation generator on its own ------------- *)

\* Records of a conditions_met list: each indicator, met and not met.
RecommendRecords ==
    { [condition |-> [indicator |-> k, operator |-> ">", threshold_value |-> 250],
       actual_value |-> <<275>>,
       met |-> b] : k \in AVAILABLE_INDICATORS, b \in BOOLEAN }

\* conditions_met lists handed to the generator, the empty one included.
RecommendInputs == SeqsUpTo(RecommendRecords, MaxRecords)

\* Shape of `rout` for the generator.
NoRecOut == [op |-> "init", recommendations |-> <<>>]

\* get_trigger_recommendations(conditions_met).
GetTriggerRecommendations ==
    /\ rout' = [NoRecOut EXCEPT
                    !.op = "get_trigger_recommendations",
                    !.recommendations = get_trigger_recommendations(rin)]
    /\ UNCHANGED <<rin, notifVars, engineVars>>

(* --------------------------- specifications --------------------------- *)

vars == <<notifVars, engineVars, resolveVars>>

\* The notification side at rest, the host on UTC.
NotifIdle ==
    /\ clock = 0
    /\ tz = 0
    /\ notification_log = <<>>
    /\ emails = <<>>
    /\ pc = [p \in Procs |-> "idle"]
    /\ req = [p \in Procs |-> NoReq]
    /\ calls = 0
    /\ faulted = FALSE
    /\ last = NoOp

\* The trigger store as seeded, nothing asked of it yet.
EngineIdle ==
    /\ triggers = SeedStore
    /\ next_id = 2
    /\ eres = NoERes

ResolveIdle ==
    /\ rin = NoRIn
    /\ rout = NoROut

Init ==
    /\ clock = 0
    /\ tz \in TZOffsets
    /\ notification_log = <<>>
    /\ emails = <<>>
    /\ pc = [p \in Procs |-> "idle"]
    /\ req = [p \in Procs |-> NoReq]
    /\ calls = 0
    /\ faulted = FALSE
    /\ last = NoOp
    /\ EngineIdle
    /\ ResolveIdle

\* The rate limiter over a log written row by row.
Next ==
    \/ Tick
    \/ \E pr \in Pairs : LogNotification(pr[1], pr[2])
    \/ \E pr \in Pairs : ShouldSend(pr[1], pr[2])
    \/ \E pr \in Pairs, h \in HourChoices : CheckRateLimit(pr[1], pr[2], h)

Spec == Init /\ [][Next]_vars

\* Concurrent send_drought_alert calls.
NextSend ==
    \/ TickSend
    \/ \E p \in Procs, pr \in Pairs : SendStart(p, pr[1], pr[2])
    \/ \E p \in Procs : Dispatch(p)
    \/ \E p \in Procs : LogStep(p)

SpecSend == Init /\ [][NextSend]_vars

\* The trigger API and the evaluation of a user's triggers.
InitEngine == NotifIdle /\ EngineIdle /\ ResolveIdle

NextEngine ==
    \/ \E r \in CreateRequests : CreateTrigger(r)
    \/ \E id \in TargetIds, u \in UpdateRequests : UpdateTrigger(id, u)
    \/ \E id \in TargetIds : ToggleTrigger(id)
    \/ \E id \in TargetIds : DeleteTrigger(id)
    \/ \E u \in UserIds, w \in Weathers : EvaluateAll(u, w, "none")

SpecEngine == InitEngine /\ [][NextEngine]_vars

\* The resolver applied to every rule name and pair of counts.
InitResolve ==
    /\ NotifIdle
    /\ EngineIdle
    /\ rin \in ResolverInputs
    /\ rout = NoROut

NextResolve ==
    \/ ApplyCombinationRule
    \/ ExampleShouldTrigger
    \/ \E w \in Weathers : EvaluateBatch(w)

SpecResolve == InitResolve /\ [][NextResolve]_vars

\* The evaluator applied to every condition and snapshot.
InitEval ==
    /\ NotifIdle
    /\ EngineIdle
    /\ rin \in EvaluatorInputs
    /\ rout = NoEOut

NextEval ==
    \/ EvaluateCondition
    \/ EmailEvaluateCondition

SpecEval == InitEval /\ [][NextEval]_vars

\* The trigger API on the seeded store.
InitApi ==
    /\ NotifIdle
    /\ EngineIdle
    /\ rin = NoApiReq
    /\ rout = NoROut

NextApi ==
    \/ \E r \in ApiCreateRequests : ApiCreate(r)
    \/ \E id \in TargetIds : ApiGet(id)
    \/ \E id \in TargetIds, u \in ApiUpdateRequests : ApiUpdate(id, u)
    \/ \E id \in TargetIds : ApiToggle(id)
    \/ \E id \in TargetIds : ApiDelete(id)

SpecApi == InitApi /\ [][NextApi]_vars

\* Triggers created and deleted through the API while notifications are
\* logged for them.
NextCascade ==
    \/ \E pr \in Pairs : LogNotification(pr[1], pr[2])
    \/ \E r \in CreateRequests : CreateTrigger(r)
    \/ \E id \in TargetIds : DeleteTrigger(id)

SpecCascade == InitEngine /\ [][NextCascade]_vars

InitReport ==
    /\ NotifIdle
    /\ EngineIdle
    /\ rin \in ReportInputs
    /\ rout = NoTableOut

NextReport == FormatConditionsTable

SpecReport == InitReport /\ [][NextReport]_vars

InitVector ==
    /\ NotifIdle
    /\ EngineIdle
    /\ rin \in VectorInputs
    /\ rout = NoVOut

NextVector ==
    \/ ApplyToVector
    \/ ApplyToCounts
    \/ ExampleOnVector

SpecVector == InitVector /\ [][NextVector]_vars

InitRecommend ==
    /\ NotifIdle
    /\ EngineIdle
    /\ rin \in RecommendInputs
    /\ rout = NoRecOut

NextRecommend == GetTriggerRecommendations

SpecRecommend == InitRecommend /\ [][NextRecommend]_vars

\* The reads of the engine next to the writes of its callers: evaluations
\* with and without a failing load, rate-limit checks, rows written to the
\* log, triggers toggled.
NextRead ==
    \/ \E pr \in Pairs : LogNotification(pr[1], pr[2])
    \/ \E pr \in Pairs : ShouldSend(pr[1], pr[2])
    \/ \E pr \in Pairs, h \in HourChoices : CheckRateLimit(pr[1], pr[2], h)
    \/ \E id \in TargetIds : ToggleTrigger(id)
    \/ \E u \in UserIds, w \in Weathers, f \in LoadFailures : EvaluateAll(u, w, f)
    \/ \E u \in UserIds, w \in Weathers : EvaluateAgain(u, w)

SpecRead == InitEngine /\ [][NextRead]_vars

(* ------------------------ claims: rate limiter ------------------------ *)

\* The operation just performed was a rate-limit check.
IsCheck == last.op \in {"should_send", "check_rate_limit"}

\* Rows of the checked pair.
CheckedRows == PairRows(notification_log, last.trigger_id, last.user_id)

\* C1: once a notification of a pair is logged at time t, every rate-limit
\* check of that pair with rate_limit_hours = H > 0 made earlier than t + H
\* hours returns allowed = false.  Stated of the checks whose lookup
\* succeeded; t and the time of the check are instants (UTC).
C1_Cooldown ==
    (IsCheck /\ ~last.failed /\ last.hours > 0) =>
        \A i \in CheckedRows :
            (clock < notification_log[i].sent_at + last.hours) => ~last.allowed

\* C2: the check allows exactly when the pair has no log entry or its most
\* recent entry is at least H hours old.  Stated of the checks whose lookup
\* succeeded; an entry's age is the time elapsed since it was written.
C2_Verdict ==
    (IsCheck /\ ~last.failed) =>
        (last.allowed <=>
            (\/ CheckedRows = {}
             \/ clock - LastSentAt(notification_log, last.trigger_id, last.user_id)
                    >= last.hours))

\* C5: a rate-limit check whose lookup fails returns allowed = true; the
\* caller gets a verdict, not the failure.
C5_FailOpen == (IsCheck /\ last.failed) => (last.allowed = TRUE)

\* C5 witness: the lookup of should_send_notification fails for a pair whose
\* latest entry a working lookup would have refused, and the check allows.
C5_Witness ==
    /\ last.op = "should_send"
    /\ last.failed
    /\ last.allowed = TRUE
    /\ CheckedRows # {}
    /\ ~should_send_notification(notification_log, last.trigger_id,
                                 last.user_id, FALSE)

\* The log with nothing but the newest row of the checked pair: the rows of
\* other triggers and other users and the pair's older rows are taken out.
OnlyLatest ==
    LET own == {i \in 1..Len(notification_log) :
                   /\ notification_log[i].trigger_id = last.trigger_id
                   /\ notification_log[i].user_id = last.user_id}
    IN IF own = {} THEN <<>>
       ELSE LET top == CHOOSE i \in own :
                           \A j \in own : notification_log[j].sent_at
                                              <= notification_log[i].sent_at
            IN <<notification_log[top]>>

\* C19: the verdict of a check whose lookup succeeded is the verdict the
\* same check gives on a log holding only the pair's entry of greatest
\* sent_at: entries of another trigger or another user, and older entries of
\* the pair, never change it.
C19_LatestOfPairOnly ==
    /\ (last.op = "should_send" /\ ~last.failed) =>
          last.allowed = should_send_notification(
                             OnlyLatest, last.trigger_id, last.user_id, FALSE)
    /\ (last.op = "check_rate_limit" /\ ~last.failed) =>
          last.allowed = check_notification_rate_limit(
                             OnlyLatest, last.trigger_id, last.user_id,
                             last.hours, FALSE)[1]

\* The pair's entry is six hours old and the newest row of the log is of
\* the same trigger for another user; the check allows.
C19_Witness ==
    /\ last.op = "should_send"
    /\ ~last.failed
    /\ last.allowed
    /\ tz = 0
    /\ Len(notification_log) = 2
    /\ Cardinality(CheckedRows) = 1
    /\ \E i \in 1..2 :
          /\ notification_log[i].trigger_id = last.trigger_id
          /\ notification_log[i].user_id # last.user_id
          /\ notification_log[i].sent_at = clock

\* C20: with rate_limit_hours = 0 the check allows, whatever the entries of
\* the pair and however old the latest is, an entry written in the same
\* instant included.
C20_ZeroWindowAllows ==
    (last.op = "check_rate_limit" /\ last.hours = 0) => last.allowed

\* The pair's latest entry was written in the instant of the check, on a
\* host west of UTC, an older entry is in the log, and the check allows.
C20_Witness ==
    /\ last.op = "check_rate_limit"
    /\ last.hours = 0
    /\ ~last.failed
    /\ last.allowed
    /\ tz < 0
    /\ Cardinality(CheckedRows) = 2
    /\ LastSentAt(notification_log, last.trigger_id, last.user_id) = clock

(* ------------------------ claims: send_drought_alert ------------------ *)

\* Some caller is at its log write for the pair of `row`, after an email of
\* that pair was accepted, and finishes its call in this step.
LoggedAfterDispatch(row) ==
    \E p \in Procs :
        /\ pc[p] = "log"
        /\ pc'[p] = "idle"
        /\ row.trigger_id = req[p].trigger_id
        /\ row.user_id = req[p].user_id
        /\ \E i \in 1..Len(emails) :
               /\ emails[i].trigger_id = row.trigger_id
               /\ emails[i].user_id = row.user_id

\* C3: the log changes only by one row appended after a dispatch succeeded;
\* a call that is rate-limited, finds the transport unavailable or
\* unconfigured, or whose dispatch fails leaves the log as it was, and no
\* existing row is modified or removed.
C3_LogAppendOnly ==
    [][ /\ (notification_log' # notification_log) =>
              /\ Len(notification_log') = Len(notification_log) + 1
              /\ SubSeq(notification_log', 1, Len(notification_log)) = notification_log
              /\ LoggedAfterDispatch(notification_log'[Len(notification_log')])
        /\ (last'.result \in {"rate_limited", "unavailable", "unconfigured", "error"})
              => (notification_log' = notification_log)
      ]_vars

\* C3 witness: a call was turned down by the rate limiter while the log
\* holds the row of an earlier dispatch.
C3_Witness ==
    /\ last.op = "send_start"
    /\ last.result = "rate_limited"
    /\ Len(notification_log) = 1
    /\ Len(emails) = 1

\* C4: at most one email of a pair is dispatched within a rate-limit window,
\* for any interleaving of send_drought_alert calls.  Stated of a host on
\* UTC with no lookup, dispatch or log write failing, where only the
\* interleaving is left to decide it.
C4_NoDuplicateInWindow ==
    (tz = 0 /\ ~faulted) =>
        \A i, j \in 1..Len(emails) :
            (/\ i < j
             /\ emails[i].trigger_id = emails[j].trigger_id
             /\ emails[i].user_id = emails[j].user_id)
                => (emails[j].at - emails[i].at >= RATE_LIMIT_HOURS)

(* ------------------------ claims: the resolver ------------------------ *)

\* What a condition asks of a snapshot, read off its three parts.
Holds(c, w) ==
    LET field == IF c.indicator = "temp" THEN "temperature" ELSE c.indicator
    IN /\ field \in DOMAIN w.num
       /\ field \notin w.nulls
       /\ \/ c.operator = ">" /\ w.num[field] > c.threshold_value
          \/ c.operator = "<" /\ w.num[field] < c.threshold_value
          \/ c.operator = ">=" /\ w.num[field] >= c.threshold_value
          \/ c.operator = "<=" /\ w.num[field] <= c.threshold_value
          \/ c.operator = "==" /\ w.num[field] = c.threshold_value

\* How many of the conditions hold.
MetCount(conds, w) == Cardinality({i \in 1..Len(conds) : Holds(conds[i], w)})

\* The N of an any_N rule.
AtLeast(rule) ==
    CASE rule = "any_1" -> 1 [] rule = "any_2" -> 2 [] rule = "any_3" -> 3

\* Whether k conditions met out of n satisfy the rule.
RuleSatisfied(rule, k, n) ==
    \/ rule \in {"any_1", "any_2", "any_3"} /\ k >= AtLeast(rule)
    \/ rule = "all" /\ k = n

\* The resolver has just been applied to rin.
Resolved == rout.op \in {"apply_combination_rule", "example_should_trigger"}

\* C8: for any_1, any_2 and any_3 and all counts 0 <= matched <= total, the
\* resolver fires exactly when matched >= N; so any_1 at 0 of 0, any_2 at
\* 1 of 1 and any_3 at 2 of 2 do not fire.
C8_AnyN ==
    (Resolved /\ rin.rule \in {"any_1", "any_2", "any_3"})
        => (rout.fired <=> rin.matched >= AtLeast(rin.rule))

\* any_2 with its single condition met has not fired, nor would any_1 at
\* 0 of 0 or any_3 at 2 of 2.
C8_Witness ==
    /\ Resolved
    /\ rin = [rule |-> "any_2", matched |-> 1, total |-> 1]
    /\ ~rout.fired
    /\ ~apply_combination_rule("any_1", 0, 0)
    /\ ~apply_combination_rule("any_3", 2, 2)
    /\ apply_combination_rule("any_3", 3, 3)

\* C9: for the rule all and all counts, the resolver fires exactly when
\* matched = total, and so it fires at 0 of 0.
C9_All ==
    (Resolved /\ rin.rule = "all") => (rout.fired <=> rin.matched = rin.total)

\* all has fired on no conditions at all, where any_1 does not.
C9_Witness ==
    /\ Resolved
    /\ rin = [rule |-> "all", matched |-> 0, total |-> 0]
    /\ rout.fired
    /\ ~apply_combination_rule("any_1", 0, 0)
    /\ ~example_should_trigger("any_1", 0, 0)

\* C10: for a rule name that is none of the four rules the resolver returns
\* false and raises nothing, whatever the counts; in a batch the trigger that
\* carries the name is absent from the alerts and the user's other trigger
\* is still evaluated: it is among the alerts exactly when its own rule is
\* satisfied.
C10_UnknownRule ==
    rin.rule \notin COMBINATION_RULES =>
        /\ Resolved => (~rout.fired /\ ~rout.raised)
        /\ rout.op = "evaluate_batch" =>
              /\ ~rout.raised
              /\ \A i \in 1..Len(rout.alerts) : rout.alerts[i].trigger_id # 2
              /\ (\E i \in 1..Len(rout.alerts) : rout.alerts[i].trigger_id = 1)
                    <=> RuleSatisfied(SeedTrigger.combination_rule,
                                      MetCount(SeedConditions, rout.weather),
                                      Len(SeedConditions))

\* A trigger with an unknown rule had all three conditions met and is absent,
\* while the seeded trigger, evaluated after it, is in the alerts.
C10_Witness ==
    /\ rin.rule = "any_4"
    /\ rout.op = "evaluate_batch"
    /\ MetCount(SeedConditions, rout.weather) = 3
    /\ Len(rout.alerts) = 1
    /\ rout.alerts[1].trigger_id = 1

(* ---------------------- claims: evaluate_all_triggers ----------------- *)

\* The ids of the triggers in the alerts returned.
AlertIds == {eres.alerts[i].trigger_id : i \in 1..Len(eres.alerts)}

\* The trigger fires on the snapshot: its rule is satisfied by the number of
\* its conditions that hold.
ShouldFire(t, w) ==
    RuleSatisfied(t.combination_rule, MetCount(t.conditions, w),
                  Len(t.conditions))

\* C6: evaluate_all_triggers returns an alert for a trigger exactly when the
\* trigger is stored, belongs to the user, is active and its rule is
\* satisfied by the number of its conditions met; each such trigger has one
\* alert and a trigger that does not fire has none.
C6_AlertIffFires ==
    eres.op = "evaluate" =>
        /\ AlertIds \subseteq DOMAIN triggers
        /\ Cardinality(AlertIds) = Len(eres.alerts)
        /\ \A id \in DOMAIN triggers :
              id \in AlertIds <=>
                  /\ triggers[id].user_id = eres.user_id
                  /\ triggers[id].is_active
                  /\ ShouldFire(triggers[id], eres.weather)

\* The user has two active triggers and one alert came back: the one for
\* the trigger that fires, none for the one that does not.
C6_Witness ==
    /\ eres.op = "evaluate"
    /\ Len(eres.alerts) = 1
    /\ \E a, b \in DOMAIN triggers :
          /\ a # b
          /\ triggers[a].user_id = eres.user_id /\ triggers[a].is_active
          /\ triggers[b].user_id = eres.user_id /\ triggers[b].is_active
          /\ ShouldFire(triggers[a], eres.weather)
          /\ ~ShouldFire(triggers[b], eres.weather)
          /\ eres.alerts[1].trigger_id = a

\* C7: whatever was created, updated and toggled before, no alert returned
\* by evaluate_all_triggers is for a trigger that is inactive at that time.
C7_InactiveNeverAlerts ==
    eres.op = "evaluate" =>
        \A i \in 1..Len(eres.alerts) :
            /\ eres.alerts[i].trigger_id \in DOMAIN triggers
            /\ triggers[eres.alerts[i].trigger_id].is_active

\* The seeded trigger, created active, is now inactive; all of its
\* conditions are met and its rule is satisfied, and it is not in the alerts,
\* which hold another trigger of the same user.
C7_Witness ==
    /\ eres.op = "evaluate"
    /\ 1 \in DOMAIN triggers
    /\ ~triggers[1].is_active
    /\ triggers[1].user_id = eres.user_id
    /\ MetCount(triggers[1].conditions, eres.weather) = Len(triggers[1].conditions)
    /\ ShouldFire(triggers[1], eres.weather)
    /\ 1 \notin AlertIds
    /\ AlertIds # {}

(* ------------------------ claims: the evaluator ----------------------- *)

\* The condition has its three fields, a known indicator and a known
\* operator.
WellFormed(c) ==
    /\ {"indicator", "operator", "threshold_value"} \subseteq DOMAIN c
    /\ c.indicator \in {"temp", "rainfall", "humidity", "wind_speed"}
    /\ c.operator \in {">", "<", ">=", "<=", "=="}

\* The field of the snapshot a well-formed condition reads.
FieldOf(c) == IF c.indicator = "temp" THEN "temperature" ELSE c.indicator

\* The snapshot holds a number in the field.
HasNumber(w, field) == field \in DOMAIN w.num /\ field \notin w.nulls

\* The evaluator has just been applied to rin.
Evaluated == rout.op \in {"evaluate_condition", "email_evaluate_condition"}

\* C11: for a well-formed condition and a snapshot holding a number in the
\* condition's field (temperature for temp, the indicator's own name for the
\* others), the evaluator returns matched equal to the comparison of that
\* number with the threshold, == being equality, and no error.
C11_Comparison ==
    (/\ Evaluated
     /\ WellFormed(rin.condition)
     /\ HasNumber(rin.weather, FieldOf(rin.condition)))
        => /\ rout.matched <=> Holds(rin.condition, rin.weather)
           /\ rout.error = "none"

\* temp == 27.5 was evaluated on a snapshot whose temperature is 27.5 and
\* matched without error.
C11_Witness ==
    /\ rout.op = "evaluate_condition"
    /\ rin.condition = [indicator |-> "temp", operator |-> "==",
                        threshold_value |-> 275]
    /\ "temperature" \in DOMAIN rin.weather.num
    /\ rin.weather.num["temperature"] = 275
    /\ rout.matched
    /\ rout.error = "none"

C13_MissingOrNull ==
    (rout.op = "evaluate_condition" /\ WellFormed(rin.condition)) =>
        LET field == FieldOf(rin.condition)
        IN /\ ~rout.raised
           /\ (field \notin DOMAIN rin.weather.num /\ field \notin rin.weather.nulls)
                 => (~rout.matched /\ rout.error = "missing indicator")
           /\ field \in rin.weather.nulls
                 => (~rout.matched /\ rout.error = "null value")

\* rainfall < 20.0 was evaluated on the empty snapshot, where a rainfall
\* read as 0 would match: not matched, "missing indicator".
C13_Witness ==
    /\ rout.op = "evaluate_condition"
    /\ rin.condition = [indicator |-> "rainfall", operator |-> "<",
                        threshold_value |-> 200]
    /\ rin.weather = NoWeather
    /\ ~rout.matched
    /\ rout.error = "missing indicator"

(* ------------------- claims: the orchestrator's alerts ---------------- *)

\* The alert for the trigger, as a set of at most one.
AlertsOf(id) ==
    {eres.alerts[i] : i \in {j \in 1..Len(eres.alerts) :
                                eres.alerts[j].trigger_id = id}}

\* The alerts returned, those of the trigger left out.
AlertsWithout(id) ==
    LET Other(a) == a.trigger_id # id
    IN SelectSeq(eres.alerts, Other)

\* C14: a condition that cannot be evaluated counts as not met and ends
\* nothing: when a trigger of the user has such a condition, every record of
\* an errored condition has met = false, every other trigger of the user is
\* in the alerts exactly when it is active and fires, and the alerts of the
\* others are those returned when the erroring trigger is not stored.
C14_ErrorIsolation ==
    eres.op = "evaluate" =>
        \A id \in DOMAIN triggers :
            (/\ triggers[id].user_id = eres.user_id
             /\ triggers[id].is_active
             /\ HasError(triggers[id].conditions, eres.weather))
            => /\ \A a \in AlertsOf(id) : \A i \in 1..Len(a.conditions_met) :
                      evaluate_condition(a.conditions_met[i].condition,
                                         eres.weather).error # "none"
                          => ~a.conditions_met[i].met
               /\ \A other \in DOMAIN triggers \ {id} :
                      other \in AlertIds <=>
                          /\ triggers[other].user_id = eres.user_id
                          /\ triggers[other].is_active
                          /\ ShouldFire(triggers[other], eres.weather)
               /\ AlertsWithout(id) =
                      evaluate_all_triggers(delete_trigger(triggers, id),
                                            eres.user_id, eres.weather)

\* The seeded trigger has two conditions that cannot be evaluated and one
\* that is met, and does not fire under any_2; the user's other trigger
\* fires and its alert shows the errored conditions as not met.
C14_Witness ==
    /\ eres.op = "evaluate"
    /\ eres.user_id = 2
    /\ DOMAIN triggers = {1, 2}
    /\ triggers[1].is_active
    /\ triggers[1].combination_rule = "any_2"
    /\ HasError(triggers[1].conditions, eres.weather)
    /\ MetCount(triggers[1].conditions, eres.weather) = 1
    /\ AlertIds = {2}
    /\ HasError(triggers[2].conditions, eres.weather)

\* C15: every alert carries one conditions_met record per condition of its
\* trigger, in order, met or not; each record's met flag is the evaluator's
\* result for that condition on the snapshot; and the trigger's rule is
\* satisfied by the number of records with met = true.
C15_ConditionsMet ==
    eres.op = "evaluate" =>
        \A n \in 1..Len(eres.alerts) :
            LET a == eres.alerts[n]
                t == triggers[a.trigger_id]
                metRecords == {i \in 1..Len(a.conditions_met) :
                                  a.conditions_met[i].met}
            IN /\ Len(a.conditions_met) = Len(t.conditions)
               /\ \A i \in 1..Len(t.conditions) :
                      /\ a.conditions_met[i].condition = t.conditions[i]
                      /\ a.conditions_met[i].met <=>
                             evaluate_condition(t.conditions[i],
                                                eres.weather).matched
               /\ RuleSatisfied(t.combination_rule, Cardinality(metRecords),
                                Len(t.conditions))

\* An alert of a trigger with three conditions shows two met and one not.
C15_Witness ==
    /\ eres.op = "evaluate"
    /\ \E n \in 1..Len(eres.alerts) :
          LET a == eres.alerts[n]
          IN /\ Len(a.conditions_met) = 3
             /\ Cardinality({i \in 1..3 : a.conditions_met[i].met}) = 2
             /\ \E i \in 1..3 : /\ ~a.conditions_met[i].met
                                /\ a.conditions_met[i].actual_value # <<>>

(* ------------------------ claims: the engine's reads ------------------ *)

\* The step is an evaluation.
EvaluationStep ==
    eres' # eres /\ eres'.op \in {"evaluate", "evaluate_again", "evaluate_raised"}

\* The step is a rate-limit check.
CheckStep ==
    last' # last /\ last'.op \in {"should_send", "check_rate_limit"}

\* C16: an evaluation and a rate-limit check write nothing: the stored
\* triggers with their conditions, the next id, the notification log and the
\* emails sent are the same after the step, whether alerts came back or not
\* and whether the check allowed or not.
C16_ReadOnly ==
    [][ (EvaluationStep \/ CheckStep) =>
            /\ triggers' = triggers
            /\ next_id' = next_id
            /\ notification_log' = notification_log
            /\ emails' = emails ]_vars

\* An evaluation has returned an alert and a check has refused, with the one
\* row of the log and the seeded trigger as they were.
C16_Witness ==
    /\ eres.op = "evaluate"
    /\ Len(eres.alerts) = 1
    /\ last.op = "should_send"
    /\ ~last.failed
    /\ ~last.allowed
    /\ Len(notification_log) = 1
    /\ triggers = SeedStore

C18_LoadFailurePropagates ==
    /\ eres.load_failure # "none" =>
          (eres.op = "evaluate_raised" /\ eres.alerts = <<>>)
    /\ (last.op \in {"should_send", "check_rate_limit"} /\ last.failed)
          => last.allowed

\* The load of the conditions of the seeded, active trigger failed and the
\* evaluation raised; a check with a failing lookup in the same run allowed.
C18_Witness ==
    /\ eres.op = "evaluate_raised"
    /\ eres.load_failure = "conditions"
    /\ eres.user_id = 2
    /\ triggers[1].is_active
    /\ last.op = "should_send"
    /\ last.failed
    /\ last.allowed

(* ----------------- claims: the recommendation generator --------------- *)

\* The generator has run on `rin`.
Recommended == rout.op = "get_trigger_recommendations"

\* Indicators of the records of `rin` with met = true.
MetIndicators == {rin[i].condition.indicator :
                     i \in {j \in 1..Len(rin) : rin[j].met}}

\* What each entry of the list returned is about.
Abouts == [i \in 1..Len(rout.recommendations) |-> rout.recommendations[i].about]

\* C21: the generator returns the empty list when no record of its input
\* has met = true (empty input, or unmet records only), and every
\* indicator-specific entry it returns is about the indicator of some record
\* with met = true.
C21_NothingForUnmet ==
    Recommended =>
        /\ MetIndicators = {} => rout.recommendations = <<>>
        /\ \A i \in 1..Len(Abouts) :
               Abouts[i] \in AVAILABLE_INDICATORS => Abouts[i] \in MetIndicators

\* Three records, none met: the list is empty.
C21_Witness ==
    /\ Recommended
    /\ Len(rin) = 3
    /\ \A i \in 1..3 : ~rin[i].met
    /\ rout.recommendations = <<>>

\* Place of an indicator in the order temp, rainfall, humidity, wind_speed.
Rank(k) ==
    CASE k = "temp" -> 1
      [] k = "rainfall" -> 2
      [] k = "humidity" -> 3
      [] k = "wind_speed" -> 4
      [] OTHER -> 0

\* The input, last record first.
Reversed == [i \in 1..Len(rin) |-> rin[Len(rin) + 1 - i]]

TrueEntries == Cardinality({i \in 1..Len(rin.conditions) : rin.conditions[i]})

WellFormedTrigger(t) ==
    /\ Len(t.conditions) >= 1
    /\ \A i \in 1..Len(t.conditions) :
          /\ t.conditions[i].indicator \in {"temp", "rainfall", "humidity", "wind_speed"}
          /\ t.conditions[i].operator \in {">", "<", ">=", "<=", "=="}
    /\ t.combination_rule \in {"any_1", "any_2", "any_3", "all"}

\* The fields of the request that, written to the store, would make a
\* trigger that is not well-formed.
BreaksStore(q) ==
    /\ q.op \in {"create", "update"}
    /\ \/ /\ "conditions" \in DOMAIN q.body
          /\ \/ Len(q.body.conditions) = 0
             \/ \E i \in 1..Len(q.body.conditions) :
                    \/ q.body.conditions[i].indicator
                           \notin {"temp", "rainfall", "humidity", "wind_speed"}
                    \/ q.body.conditions[i].operator
                           \notin {">", "<", ">=", "<=", "=="}
       \/ /\ "combination_rule" \in DOMAIN q.body
          /\ q.body.combination_rule \notin {"any_1", "any_2", "any_3", "all"}

\* C24: after any sequence of create, update, toggle and delete requests
\* every stored trigger is well-formed, and a request that would store a
\* trigger that is not is rejected (422) and leaves the store as it was.
C24_StoredWellFormed ==
    /\ [](\A id \in DOMAIN triggers : WellFormedTrigger(triggers[id]))
    /\ [][ BreaksStore(rin') =>
              /\ eres'.status = 422
              /\ triggers' = triggers
              /\ next_id' = next_id ]_vars

\* An update with an empty condition list was sent for a stored trigger
\* whose conditions an earlier update had replaced, and was rejected.
C24_Witness ==
    /\ rin.op = "update"
    /\ rin.body = [conditions |-> <<>>]
    /\ rin.id \in DOMAIN triggers
    /\ triggers[rin.id].conditions = WindConditions
    /\ eres.status = 422

\* C25: an update that is applied writes every supplied field as supplied,
\* the condition list as a whole, and leaves the fields it does not supply,
\* the owner and the id as they were; an update supplying no field is
\* rejected and changes nothing.
C25_UpdateFrame ==
    [][ /\ (rin'.op = "update" /\ eres'.status = 200) =>
              /\ DOMAIN triggers' = DOMAIN triggers
              /\ \A f \in {"name", "region", "conditions",
                           "combination_rule", "is_active"} :
                     triggers'[rin'.id][f] =
                         IF f \in DOMAIN rin'.body THEN rin'.body[f]
                         ELSE triggers[rin'.id][f]
              /\ triggers'[rin'.id].user_id = triggers[rin'.id].user_id
              /\ triggers'[rin'.id].id = triggers[rin'.id].id
        /\ (rin'.op = "update" /\ DOMAIN rin'.body = {}) =>
              /\ eres'.status \in {400, 404}
              /\ rin'.id \in DOMAIN triggers => eres'.status = 400
              /\ triggers' = triggers ]_vars

\* The seeded trigger, renamed by an earlier update, has had its three
\* conditions replaced by the two supplied and keeps the new name, its rule,
\* its flag and its owner.
C25_Witness ==
    /\ rin.op = "update"
    /\ rin.id = 1
    /\ rin.body = [conditions |-> WindConditions]
    /\ eres.status = 200
    /\ triggers[1].conditions = WindConditions
    /\ triggers[1].name = "Updated Drought Alert"
    /\ triggers[1].combination_rule = "any_2"
    /\ triggers[1].is_active
    /\ triggers[1].user_id = 2

\* C26: a toggle that is applied flips is_active of the trigger, leaves its
\* other fields and every other trigger as they were, and answers with the
\* row, whose flag is the new one and differs from the flag before.
C26_ToggleFrame ==
    [][ (rin'.op = "toggle" /\ eres'.status = 200) =>
            /\ DOMAIN triggers' = DOMAIN triggers
            /\ triggers'[rin'.id].is_active = ~triggers[rin'.id].is_active
            /\ \A f \in {"id", "user_id", "name", "region", "conditions",
                         "combination_rule"} :
                   triggers'[rin'.id][f] = triggers[rin'.id][f]
            /\ \A o \in DOMAIN triggers \ {rin'.id} : triggers'[o] = triggers[o]
            /\ eres'.body = <<triggers'[rin'.id]>>
            /\ eres'.body[1].is_active # triggers[rin'.id].is_active ]_vars

\* Two triggers are stored; the second was toggled back on and the answer
\* shows it active.
C26_Witness ==
    /\ rin.op = "toggle"
    /\ rin.id = 2
    /\ eres.status = 200
    /\ DOMAIN triggers = {1, 2}
    /\ eres.body[1].is_active
    /\ triggers[2].is_active
    /\ ~triggers[1].is_active

\* The request names an id in its path.
OnAnId(q) == q.op \in {"get", "update", "delete", "toggle"}

\* C28, as stated: a get, update, delete or toggle of an id that is not
\* stored answers 404 and leaves the store unchanged, and the id of a
\* deleted trigger is never stored again.
C28_NotFound ==
    [][ /\ (OnAnId(rin') /\ rin'.id \notin DOMAIN triggers) =>
              (eres'.status = 404 /\ triggers' = triggers)
        /\ \A id \in 1..(next_id - 1) :
              id \notin DOMAIN triggers => id \notin DOMAIN triggers' ]_vars

\* C28, amended: the same for every get, delete and toggle and for every
\* update whose body passes validation; an update whose body fails
\* validation answers 422, stored id or not, and also leaves the store
\* unchanged.
C28_NotFoundValidated ==
    [][ /\ (OnAnId(rin') /\ rin'.id \notin DOMAIN triggers) =>
              /\ triggers' = triggers
              /\ eres'.status = IF rin'.op = "update" /\ BreaksStore(rin')
                                THEN 422 ELSE 404
        /\ \A id \in 1..(next_id - 1) :
              id \notin DOMAIN triggers => id \notin DOMAIN triggers' ]_vars

\* Trigger 1 was deleted, a trigger was created after that, and a later
\* update of id 1 with a valid body answered 404.
C28_Witness ==
    /\ rin.op = "update"
    /\ rin.id = 1
    /\ rin.body = [name |-> "Updated Drought Alert"]
    /\ eres.status = 404
    /\ DOMAIN triggers = {2}
    /\ next_id = 3

(* --------------------------- claims: deletion ------------------------- *)

\* C27: after a delete, no notification log entry refers to a trigger that
\* no longer exists: the step that deletes a trigger leaves no row of the
\* log with its trigger_id.
C27_CascadeDelete ==
    [][ (eres'.op = "delete" /\ eres'.status = 200 /\ triggers' # triggers) =>
            \A i \in 1..Len(notification_log') :
                notification_log'[i].trigger_id # eres'.trigger_id ]_vars

(* ------------------ claims: the outcome send_drought_alert reports ---- *)

\* Emails accepted for the pair.
EmailsOf(trigger_id, user_id) ==
    {i \in 1..Len(emails) : /\ emails[i].trigger_id = trigger_id
                            /\ emails[i].user_id = user_id}

\* C29: a call of send_drought_alert whose email was dispatched returns
\* success = true and has written a log entry for the pair; a call that
\* returns success = true has dispatched an email; and when no call is under
\* way every pair has as many log entries as emails dispatched.
C29_OutcomeMatches ==
    /\ last.op = "log" =>
          /\ last.result = "success"
          /\ PairRows(notification_log, last.trigger_id, last.user_id) # {}
    /\ last.result = "success" =>
          EmailsOf(last.trigger_id, last.user_id) # {}
    /\ (\A p \in Procs : pc[p] = "idle") =>
          \A pr \in Pairs :
              Cardinality(EmailsOf(pr[1], pr[2]))
                  = Cardinality(PairRows(notification_log, pr[1], pr[2]))

(* ---------------------- claims: the email report ---------------------- *)

\* C30: for every record of the engine's conditions_met, the table of the
\* email is produced and the status it shows in the record's row equals the
\* record's met flag.
C30_ReportAgrees ==
    rout.op = "format_conditions_table" =>
        /\ ~rout.raised
        /\ \A i \in 1..Len(rout.records) :
               rout.is_met[i] = rout.records[i].met

====
